---- MODULE Spec2Model ----
(***************************************************************************)
(* Model of src/utils/data_loader.py (class DocumentLoader).               *)
(*                                                                         *)
(* A Python str is a sequence of one-character tokens.  Characters outside *)
(* ASCII are written as ASCII token names: FW is U+3000 (fullwidth space), *)
(* "<pe>" "<cho>" "<ji>" are the three katakana of the page marker, "[["   *)
(* is U+3010 (the opening lenticular bracket), "Fx" is the fullwidth form  *)
(* of the ASCII letter x, "hw_i" the halfwidth katakana I.                 *)
(*                                                                         *)
(* The loader keeps no state between calls (only data_dir).  A state of    *)
(* the model is one completed call: op names the method, arg its input     *)
(* (for the file readers: the part of the filesystem the call found), ret  *)
(* its return value, and reads the files the call tried to parse, in       *)
(* order.  Calls are independent of each other, so every call starts from  *)
(* the idle state (op = "init") and Return hands the result to the caller  *)
(* and goes back to it.                                                    *)
(***************************************************************************)
EXTENDS Integers, Sequences, FiniteSets, TLC

VARIABLES op, arg, ret, reads

vars == <<op, arg, ret, reads>>

\* Optional values: None is the empty tuple, a present value v is <<v>>
None == <<>>

Some(v) == <<v>>

Val(o) == o[1]

Init ==
    /\ op = "init"
    /\ arg = <<>>
    /\ ret = None
    /\ reads = <<>>

Idle == op = "init"

Return ==
    /\ ~Idle
    /\ op' = "init"
    /\ arg' = <<>>
    /\ ret' = None
    /\ reads' = <<>>

---------------------------------------------------------------------------
(* Characters and generic string operations                                *)

NL == "\n"
SP == " "
FW == "U+3000"

\* str.strip() with no argument removes Unicode whitespace; of the
\* characters of the model these are newline, space and U+3000.
IsSpace(c) == c \in {NL, SP, FW}

Digits == <<"0", "1", "2", "3", "4", "5", "6", "7", "8", "9">>

IsDigit(c) == \E i \in 1..Len(Digits) : Digits[i] = c

DigitValue(c) == (CHOOSE i \in 1..Len(Digits) : Digits[i] = c) - 1

Drop(s, n) == SubSeq(s, n + 1, Len(s))

Take(s, n) == SubSeq(s, 1, n)

StartsWith(s, p) == Len(s) >= Len(p) /\ Take(s, Len(p)) = p

EndsWith(s, p) == Len(s) >= Len(p) /\ Drop(s, Len(s) - Len(p)) = p

\* Python's `p in s`
Contains(s, p) == \E i \in 0..(Len(s) - Len(p)) : StartsWith(Drop(s, i), p)

RECURSIVE LStrip(_)
LStrip(s) ==
    IF s # <<>> /\ IsSpace(Head(s)) THEN LStrip(Tail(s)) ELSE s

RECURSIVE RStrip(_)
RStrip(s) ==
    IF s # <<>> /\ IsSpace(s[Len(s)]) THEN RStrip(Take(s, Len(s) - 1)) ELSE s

\* str.strip()
Strip(s) == RStrip(LStrip(s))

Least(S) == CHOOSE n \in S : \A m \in S : n <= m

\* length of the run of character c that s starts with
RECURSIVE RunLen(_, _)
RunLen(s, c) ==
    IF s # <<>> /\ Head(s) = c THEN 1 + RunLen(Tail(s), c) ELSE 0

\* re.sub(c{k,}, r, s): every maximal run of at least k characters c is
\* replaced by r, shorter runs are kept
RECURSIVE SubRuns(_, _, _, _)
SubRuns(s, c, k, r) ==
    LET at == {i \in 1..Len(s) : s[i] = c}
    IN  IF at = {} THEN s
        ELSE LET i == Least(at)
                 n == RunLen(Drop(s, i - 1), c)
             IN  Take(s, i - 1)
                   \o (IF n >= k THEN r ELSE SubSeq(s, i, i + n - 1))
                   \o SubRuns(Drop(s, i - 1 + n), c, k, r)

\* str.replace(a, b) for single characters
ReplaceChar(s, a, b) == [i \in 1..Len(s) |-> IF s[i] = a THEN b ELSE s[i]]

\* str.split(sep): the pieces between the non-overlapping occurrences of
\* sep, found left to right; always at least one piece
RECURSIVE Split(_, _)
Split(s, sep) ==
    LET at == {i \in 0..(Len(s) - Len(sep)) : StartsWith(Drop(s, i), sep)}
    IN  IF at = {} THEN <<s>>
        ELSE <<Take(s, Least(at))>> \o Split(Drop(s, Least(at) + Len(sep)), sep)

\* pathlib: the suffix starts at the last dot of the name, unless that dot
\* is the first or the last character; the stem is the rest
LastDot(name) ==
    LET dots == {i \in 1..Len(name) : name[i] = "."}
    IN  IF dots = {} THEN 0 ELSE CHOOSE i \in dots : \A j \in dots : j <= i

HasSuffix(name) == LastDot(name) > 1 /\ LastDot(name) < Len(name)

Suffix(name) == IF HasSuffix(name) THEN Drop(name, LastDot(name) - 1) ELSE <<>>

Stem(name) == IF HasSuffix(name) THEN Take(name, LastDot(name) - 1) ELSE name

\* all sequences over S of length at most n
SeqsUpTo(S, n) == UNION {[1..k -> S] : k \in 0..n}

---------------------------------------------------------------------------
(* _clean_text                                                             *)

NewlineRunMin == 3
SpaceRunMin == 2

\* line 57: re.sub(r'\n{3,}', '\n\n', text)
CollapseNewlines(text) == SubRuns(text, NL, NewlineRunMin, <<NL, NL>>)

\* line 60: text.replace(U+3000, ' ')
FoldFullwidthSpace(text) == ReplaceChar(text, FW, SP)

\* line 63: re.sub(r' {2,}', ' ', text)
CollapseSpaces(text) == SubRuns(text, SP, SpaceRunMin, <<SP>>)

\* a normalizer that collapses the space runs before it folds U+3000
clean_text_FoldLast(text) ==
    Strip(FoldFullwidthSpace(CollapseSpaces(CollapseNewlines(text))))

clean_text(text) ==
    Strip(CollapseSpaces(FoldFullwidthSpace(CollapseNewlines(text))))

MaxCleanLen == 7

CleanAlphabet == {NL, SP, FW, "a"}

CleanText ==
    /\ Idle
    /\ \E x \in SeqsUpTo(CleanAlphabet, MaxCleanLen) :
        /\ op' = "_clean_text"
        /\ arg' = x
        /\ ret' = clean_text(x)
        /\ reads' = <<>>

NextClean == CleanText \/ Return

SpecClean == Init /\ [][NextClean]_vars

\* C4: _clean_text is idempotent: cleaning the value it returned returns
\* that value unchanged, for every input over newline, space, U+3000 and
\* an ordinary character (runs of 5 newlines and mixed U+3000/space runs
\* are among the inputs).
C4_CleanIdempotent ==
    op = "_clean_text" => clean_text(ret) = ret

\* a run of 5 newlines between two ordinary characters was collapsed to 2
C4_Witness ==
    /\ op = "_clean_text"
    /\ arg = <<"a", NL, NL, NL, NL, NL, "a">>
    /\ ret = <<"a", NL, NL, "a">>

---------------------------------------------------------------------------
(* _detect_document_type                                                   *)

DT_EPI == "package_insert"         \* line 36
DT_IF == "interview_form"   \* line 38
DT_RMP == "risk_management_plan"   \* line 40
DT_GUIDE == "patient_guide"        \* line 42
DT_OTHER == "other"                \* line 44

DocTypes == {DT_EPI, DT_IF, DT_RMP, DT_GUIDE, DT_OTHER}

\* unicodedata.normalize('NFKC', c) for the characters of the model that it
\* changes: a fullwidth form becomes its ASCII character, the halfwidth
\* katakana its fullwidth katakana.  Every other character of the model is
\* its own NFKC form, and no two characters of the model compose.
NfkcTable ==
    ("F." :> ".") @@ ("Fx" :> "x") @@ ("Fm" :> "m") @@ ("Fl" :> "l") @@
    ("FR" :> "R") @@ ("FM" :> "M") @@ ("FP" :> "P") @@ ("FI" :> "I") @@
    ("FF" :> "F") @@ ("hw_i" :> "<i>")

NfkcChar(c) == IF c \in DOMAIN NfkcTable THEN NfkcTable[c] ELSE c

Nfkc(s) == [i \in 1..Len(s) |-> NfkcChar(s[i])]

XmlExt == <<".", "x", "m", "l">>
PdfExt == <<".", "p", "d", "f">>
IfMarkerLong == <<"_", "I", "F", ".", "p", "d", "f">>
IfMarker == <<"I", "F", ".", "p", "d", "f">>
RmpMarkerLong == <<"_", "R", "M", "P">>
RmpMarker == <<"R", "M", "P">>
GuideMarker == <<"<kan>", "<ja>", "<mu>", "<ke>", "<ga>", "<i>", "<do>">>

IsXmlName(file_name) == EndsWith(Nfkc(file_name), XmlExt)

IsInterviewName(file_name) ==
    Contains(Nfkc(file_name), IfMarkerLong) \/ Contains(Nfkc(file_name), IfMarker)

IsRmpName(file_name) ==
    Contains(Nfkc(file_name), RmpMarkerLong) \/ Contains(Nfkc(file_name), RmpMarker)

IsGuideName(file_name) ==
    Contains(Nfkc(file_name), GuideMarker) \/ Contains(file_name, GuideMarker)

\* a classifier that tests the interview-form marker before the extension
detect_document_type_IfFirst(file_name) ==
    IF IsInterviewName(file_name) THEN DT_IF
    ELSE IF IsXmlName(file_name) THEN DT_EPI
    ELSE IF IsRmpName(file_name) THEN DT_RMP
    ELSE IF IsGuideName(file_name) THEN DT_GUIDE
    ELSE DT_OTHER

detect_document_type(file_name) ==
    IF IsXmlName(file_name) THEN DT_EPI
    ELSE IF IsInterviewName(file_name) THEN DT_IF
    ELSE IF IsRmpName(file_name) THEN DT_RMP
    ELSE IF IsGuideName(file_name) THEN DT_GUIDE
    ELSE DT_OTHER

\* file names are built from these pieces
NamePieces ==
    { <<"a">>,
      XmlExt, <<"F.", "Fx", "Fm", "Fl">>, <<".", "X", "M", "L">>,
      PdfExt,
      IfMarkerLong, <<"FI", "FF", ".", "p", "d", "f">>,
      RmpMarker, <<"FR", "FM", "FP">>,
      GuideMarker, <<"<kan>", "<ja>", "<mu>", "<ke>", "<ga>", "hw_i", "<do>">> }

MaxPieces == 3

RECURSIVE Concat(_)
Concat(ss) == IF ss = <<>> THEN <<>> ELSE Head(ss) \o Concat(Tail(ss))

FileNames == {Concat(ps) : ps \in SeqsUpTo(NamePieces, MaxPieces)}

DetectDocumentType ==
    /\ Idle
    /\ \E file_name \in FileNames :
        /\ op' = "_detect_document_type"
        /\ arg' = file_name
        /\ ret' = detect_document_type(file_name)
        /\ reads' = <<>>

NextDetect == DetectDocumentType \/ Return

SpecDetect == Init /\ [][NextDetect]_vars

\* the rules of section 4.1 that a name matches, as the set of their
\* numbers; rule 5 matches every name
RulesMatched(file_name) ==
    {5} \cup (IF IsXmlName(file_name) THEN {1} ELSE {})
        \cup (IF IsInterviewName(file_name) THEN {2} ELSE {})
        \cup (IF IsRmpName(file_name) THEN {3} ELSE {})
        \cup (IF IsGuideName(file_name) THEN {4} ELSE {})

RuleLabel == <<DT_EPI, DT_IF, DT_RMP, DT_GUIDE, DT_OTHER>>

\* C3: _detect_document_type returns the label of the first rule, in the
\* order xml extension, interview-form marker, RMP marker, patient-guide
\* marker, other, that the name matches; a name ending in .xml is always
\* an electronic package insert, whatever other markers it contains.
C3_FirstRuleWins ==
    op = "_detect_document_type" =>
        /\ ret = RuleLabel[Least(RulesMatched(arg))]
        /\ EndsWith(arg, XmlExt) => ret = DT_EPI

\* a name with the interview-form, the RMP and the guide marker that ends
\* in .xml
C3_Witness ==
    /\ op = "_detect_document_type"
    /\ EndsWith(arg, XmlExt)
    /\ {1, 2, 3} \subseteq RulesMatched(arg)
    /\ ret = DT_EPI

---------------------------------------------------------------------------
(* _extract_first_heading                                                  *)

HeadingScanLines == 5
HeadingMinRest == 3
HeadingMaxRest == 50

LBRACKET == "[["

Min(a, b) == IF a <= b THEN a ELSE b

\* line 112: re.match(r'^[\d\[[].{3,50}', line).  re.match anchors the
\* pattern at the start of the line only: it succeeds when the first
\* character is in the class and some k in 3..50 further characters follow
\* it, whatever comes after those.  A line holds no newline, so '.' matches
\* each of its characters.
HeadingMatch(line) ==
    /\ line # <<>>
    /\ IsDigit(line[1]) \/ line[1] = LBRACKET
    /\ \E k \in HeadingMinRest..HeadingMaxRest : Len(line) >= 1 + k

\* lines 109-115: the first stripped line that matches, else None
RECURSIVE FirstHeading(_)
FirstHeading(lines) ==
    IF lines = <<>> THEN None
    ELSE IF HeadingMatch(Strip(Head(lines))) THEN Some(Strip(Head(lines)))
    ELSE FirstHeading(Tail(lines))

extract_first_heading(text) ==
    LET all == Split(text, <<NL>>)
    IN  FirstHeading(Take(all, Min(HeadingScanLines, Len(all))))

Fill(n) == [i \in 1..n |-> "x"]

\* the lines the heading texts are made of: blank, no leading digit or
\* bracket, 2 / 3 / 50 / 51 characters after the first one
HeadingLineShapes ==
    { <<>>,
      <<"a", "b", "c", "d", "e">>,
      <<"1", "a", "b">>,
      <<SP, LBRACKET, "a", "b", "c", SP>>,
      <<"2">> \o Fill(HeadingMaxRest),
      <<"3">> \o Fill(HeadingMaxRest + 1) }

MaxLines == 6

RECURSIVE JoinLines(_)
JoinLines(lines) ==
    IF lines = <<>> THEN <<>>
    ELSE IF Len(lines) = 1 THEN lines[1]
    ELSE lines[1] \o <<NL>> \o JoinLines(Tail(lines))

ExtractFirstHeading ==
    /\ Idle
    /\ \E lines \in SeqsUpTo(HeadingLineShapes, MaxLines) :
        /\ op' = "_extract_first_heading"
        /\ arg' = JoinLines(lines)
        /\ ret' = extract_first_heading(JoinLines(lines))
        /\ reads' = <<>>

NextHeading == ExtractFirstHeading \/ Return

SpecHeading == Init /\ [][NextHeading]_vars

\* the heading as section 4.3 of the specification describes it: a line
\* qualifies when, stripped, it starts with a digit or the bracket and
\* exactly 3 to 50 characters follow
QualifiesAsDescribed(line) ==
    /\ line # <<>>
    /\ IsDigit(line[1]) \/ line[1] = LBRACKET
    /\ Len(line) - 1 \in HeadingMinRest..HeadingMaxRest

RECURSIVE FirstAsDescribed(_)
FirstAsDescribed(lines) ==
    IF lines = <<>> THEN None
    ELSE IF QualifiesAsDescribed(Strip(Head(lines))) THEN Some(Strip(Head(lines)))
    ELSE FirstAsDescribed(Tail(lines))

\* C6: _extract_first_heading returns the first of the first 5 lines that
\* starts with a digit or the opening bracket and is followed by 3 to 50
\* more characters, and no heading when none of them does; in particular a
\* line outside the 3-to-50 range is never returned.
C6_HeadingAsDescribed ==
    op = "_extract_first_heading" =>
        LET all == Split(arg, <<NL>>)
        IN  ret = FirstAsDescribed(Take(all, Min(HeadingScanLines, Len(all))))

---------------------------------------------------------------------------
(* _extract_sections_from_text and load_pdf                                *)

\* line 81: the string the text is split on
Separator == <<"-", "-", "-", SP, "<pe>", "<cho>", "<ji>">>

\* what line 88's pattern requires after the digits
PageSuffix == <<SP, "-", "-", "-">>

\* str(n) for n >= 0
RECURSIVE Decimal(_)
Decimal(n) ==
    IF n < 10 THEN <<Digits[n + 1]>>
    ELSE Decimal(n \div 10) \o <<Digits[(n % 10) + 1]>>

\* int(s) for a string of digits
RECURSIVE ParseInt(_)
ParseInt(s) ==
    IF s = <<>> THEN 0
    ELSE 10 * ParseInt(Take(s, Len(s) - 1)) + DigitValue(s[Len(s)])

RECURSIVE DigitRun(_)
DigitRun(s) ==
    IF s # <<>> /\ IsDigit(Head(s)) THEN 1 + DigitRun(Tail(s)) ELSE 0

\* line 88: re.match(r'(\d+) ---', page_text), anchored at the first
\* character of the chunk: one or more digits, then " ---".  The result is
\* the match's end offset, 0 when there is no match.
PageMatchEnd(page_text) ==
    LET d == DigitRun(page_text)
    IN  IF d >= 1 /\ StartsWith(Drop(page_text, d), PageSuffix)
        THEN d + Len(PageSuffix)
        ELSE 0

\* lines 84-101, one chunk: no section for a chunk that is blank when
\* stripped, else one section
SectionsOfChunk(page_text, file_name) ==
    IF Strip(page_text) = <<>> THEN <<>>
    ELSE LET end == PageMatchEnd(page_text)
             section_text == IF end > 0 THEN Drop(page_text, end) ELSE page_text
         IN  << [ text |-> clean_text(section_text),
                  page |-> IF end > 0
                           THEN Some(ParseInt(Take(page_text, DigitRun(page_text))))
                           ELSE None,
                  heading |-> extract_first_heading(section_text),
                  file_name |-> file_name ] >>

RECURSIVE SectionsOfChunks(_, _)
SectionsOfChunks(chunks, file_name) ==
    IF chunks = <<>> THEN <<>>
    ELSE SectionsOfChunk(Head(chunks), file_name)
           \o SectionsOfChunks(Tail(chunks), file_name)

extract_sections_from_text(text, file_name) ==
    SectionsOfChunks(Split(text, Separator), file_name)

\* a page block that leaves out the pages whose extracted text is empty
PageBlock_SkipEmpty(page_num, page_text) ==
    IF page_text = <<>> THEN <<>>
    ELSE <<NL>> \o Separator \o <<SP>> \o Decimal(page_num)
           \o <<SP, "-", "-", "-", NL>> \o page_text

\* line 133: f"\n--- <pe><cho><ji> {page_num} ---\n{page_text}"
PageBlock(page_num, page_text) ==
    <<NL>> \o Separator \o <<SP>> \o Decimal(page_num)
      \o <<SP, "-", "-", "-", NL>> \o page_text

\* lines 130-134: the blocks of pages first..Len(pages), joined
RECURSIVE FullTextFrom(_, _)
FullTextFrom(pages, first) ==
    IF first > Len(pages) THEN <<>>
    ELSE PageBlock(first, pages[first]) \o FullTextFrom(pages, first + 1)

\* a path is the name of the file and the name of its parent directory
FilePath(file) == <<file.parent, file.name>>

\* a reader that classifies the path's stem instead of the file's name
load_pdf_ClassifyStem(file) ==
    IF ~file.ok THEN None
    ELSE LET full_text == FullTextFrom(file.pages, 1)
         IN  Some([ full_text |-> full_text,
                    sections |-> extract_sections_from_text(full_text, file.name),
                    file_name |-> file.name,
                    file_path |-> FilePath(file),
                    pages |-> Some(Len(file.pages)),
                    doc_type |-> detect_document_type(Stem(file.name)),
                    doc_type_ja |-> detect_document_type(Stem(file.name)) ])

\* lines 127-155.  file.ok says that PdfReader and every extract_text
\* succeed; otherwise an exception is caught and the result is None.
\* file.pages are the texts extract_text returns ("" for None).
load_pdf(file) ==
    IF ~file.ok THEN None
    ELSE LET full_text == FullTextFrom(file.pages, 1)
         IN  Some([ full_text |-> full_text,
                    sections |-> extract_sections_from_text(full_text, file.name),
                    file_name |-> file.name,
                    file_path |-> FilePath(file),
                    pages |-> Some(Len(file.pages)),
                    doc_type |-> detect_document_type(file.name),
                    doc_type_ja |-> detect_document_type(file.name) ])

\* page texts: empty, plain, in need of cleaning, with a heading on the
\* second line, ending in part of the separator, looking like a page prefix
PageBodies ==
    { <<>>,
      <<"a">>,
      <<SP, SP, "a", NL, NL, NL, "b", FW>>,
      <<NL, LBRACKET, "a", "b", "c">>,
      <<"b", NL, "-", "-", "-", SP>>,
      <<"7", SP, "-", "-", "-", "c">> }

MaxPages == 3

PdfNames == { <<"a">> \o IfMarkerLong, <<"b">> \o PdfExt }

LoadPdf ==
    /\ Idle
    /\ \E pages \in SeqsUpTo(PageBodies, MaxPages), name \in PdfNames, ok \in BOOLEAN :
        LET file == [name |-> name, parent |-> "ProdA", ok |-> ok, pages |-> pages]
        IN  /\ op' = "load_pdf"
            /\ arg' = file
            /\ ret' = load_pdf(file)
            /\ reads' = <<FilePath(file)>>

\* a text with the markers written without the space before the number
RECURSIVE TightTextFrom(_, _)
TightTextFrom(pages, first) ==
    IF first > Len(pages) THEN <<>>
    ELSE <<NL>> \o Separator \o Decimal(first) \o <<SP, "-", "-", "-", NL>>
           \o pages[first] \o TightTextFrom(pages, first + 1)

\* _extract_sections_from_text called on a text in the format load_pdf
\* writes ("pdf"), on one with tight markers ("tight"), and on one page
\* text without any marker ("plain")
ExtractSectionsFromText ==
    /\ Idle
    /\ \E pages \in SeqsUpTo(PageBodies, MaxPages), name \in PdfNames,
          format \in {"pdf", "tight", "plain"} :
        LET text == CASE format = "pdf" -> FullTextFrom(pages, 1)
                      [] format = "tight" -> TightTextFrom(pages, 1)
                      [] format = "plain" -> IF pages = <<>> THEN <<>> ELSE pages[1]
        IN  /\ op' = "_extract_sections_from_text"
            /\ arg' = [text |-> text, file_name |-> name, format |-> format, pages |-> pages]
            /\ ret' = extract_sections_from_text(text, name)
            /\ reads' = <<>>

NextPdf == LoadPdf \/ ExtractSectionsFromText \/ Return

SpecPdf == Init /\ [][NextPdf]_vars

\* C1: for a text of N page blocks in the format load_pdf writes,
\* _extract_sections_from_text returns N sections, the i-th with page = i
\* and text = _clean_text(body of page i), the page-number prefix stripped.
C1_SectionsCarryPages ==
    (op = "_extract_sections_from_text" /\ arg.format = "pdf") =>
        /\ Len(ret) = Len(arg.pages)
        /\ \A i \in 1..Len(ret) :
            /\ ret[i].page = Some(i)
            /\ ret[i].text = clean_text(arg.pages[i])

\* C2: the record load_pdf returns for a PDF of N >= 0 pages (page texts
\* may be empty) has exactly N sections, as many as its page count, the
\* i-th made from page i: it carries the number i (in its page field, or
\* at the start of its text, where the marker's number stays when the
\* prefix is not stripped) and its text holds the cleaned text of page i.
\* The chunk before the first marker gives no section.
C2_OneSectionPerPage ==
    (op = "load_pdf" /\ ret # None) =>
        /\ Len(Val(ret).sections) = Len(arg.pages)
        /\ Some(Len(Val(ret).sections)) = Val(ret).pages
        /\ \A i \in 1..Len(Val(ret).sections) :
            /\ \/ Val(ret).sections[i].page = Some(i)
               \/ StartsWith(Val(ret).sections[i].text, Decimal(i) \o PageSuffix)
            /\ Contains(Val(ret).sections[i].text, clean_text(arg.pages[i]))

\* a PDF of 3 pages whose second page is empty gave 3 sections
C2_Witness ==
    /\ op = "load_pdf"
    /\ ret # None
    /\ Len(arg.pages) = 3
    /\ arg.pages[2] = <<>>
    /\ arg.pages[3] # <<>>
    /\ Len(Val(ret).sections) = 3

---------------------------------------------------------------------------
(* get_document_stats                                                      *)

\* the default bucket of lines 329-341
Unknown == "unknown"

\* A dict is a function; a document is a dict whose keys are field names.
EmptyDict == <<>>

\* dict.get(key, default)
Get(d, key, default) == IF key \in DOMAIN d THEN d[key] ELSE default

Put(d, key, value) ==
    IF key \in DOMAIN d THEN [d EXCEPT ![key] = value] ELSE d @@ (key :> value)

\* a counter update that forgets the count it had
Incr_Reset(counts, key) == Put(counts, key, 1)

\* counts[key] = counts.get(key, 0) + 1
Incr(counts, key) == Put(counts, key, Get(counts, key, 0) + 1)

\* lines 328-342: one iteration of the loop
StatsStep(stats, doc) ==
    [ total_docs |-> stats.total_docs,
      by_type |-> Incr(stats.by_type, Get(doc, "doc_type_ja", Unknown)),
      by_product |-> Incr(stats.by_product, Get(doc, "product_name", Unknown)),
      by_product_type |-> Incr(stats.by_product_type, Get(doc, "product_type", Unknown)),
      by_company |-> Incr(stats.by_company, Get(doc, "company_type", Unknown)) ]

RECURSIVE StatsFrom(_, _)
StatsFrom(stats, documents) ==
    IF documents = <<>> THEN stats
    ELSE StatsFrom(StatsStep(stats, Head(documents)), Tail(documents))

get_document_stats(documents) ==
    StatsFrom([ total_docs |-> Len(documents),
                by_type |-> EmptyDict,
                by_product |-> EmptyDict,
                by_product_type |-> EmptyDict,
                by_company |-> EmptyDict ], documents)

\* The documents of the statistics calls, with the fields the function
\* reads.  The first two are as load_product_documents returns them, the
\* third as load_pdf returns it (no metadata), the fourth has the fields
\* of the specification's Document record (doc_type, no doc_type_ja), the
\* fifth a product that is literally named "unknown".
StatDocs ==
    { [ doc_type |-> DT_IF, doc_type_ja |-> DT_IF, product_name |-> "ProdA",
        product_type |-> "plasma", company_type |-> "own" ],
      [ doc_type |-> DT_EPI, doc_type_ja |-> DT_EPI, product_name |-> "ProdB",
        product_type |-> "ibd", company_type |-> "other_co" ],
      [ doc_type |-> DT_RMP, doc_type_ja |-> DT_RMP ],
      [ doc_type |-> DT_GUIDE, product_name |-> "ProdA",
        product_type |-> "plasma", company_type |-> "own" ],
      [ doc_type |-> DT_IF, doc_type_ja |-> DT_IF, product_name |-> Unknown,
        product_type |-> "ibd", company_type |-> "own" ] }

MaxDocs == 5

GetDocumentStats ==
    /\ Idle
    /\ \E documents \in SeqsUpTo(StatDocs, MaxDocs) :
        /\ op' = "get_document_stats"
        /\ arg' = documents
        /\ ret' = get_document_stats(documents)
        /\ reads' = <<>>

NextStats == GetDocumentStats \/ Return

SpecStats == Init /\ [][NextStats]_vars

\* the tally of a field over a list: each value that occurs, a missing
\* field as "unknown", with the number of documents that have it
Tally(documents, key) ==
    LET value(i) == Get(documents[i], key, Unknown)
    IN  [ v \in {value(i) : i \in 1..Len(documents)} |->
            Cardinality({i \in 1..Len(documents) : value(i) = v}) ]

RECURSIVE SumOver(_, _)
SumOver(counts, keys) ==
    IF keys = {} THEN 0
    ELSE LET k == CHOOSE x \in keys : TRUE
         IN  counts[k] + SumOver(counts, keys \ {k})

Total(counts) == SumOver(counts, DOMAIN counts)

Reverse(q) == [i \in 1..Len(q) |-> q[Len(q) + 1 - i]]

\* C5 as stated: by_type tallies the documents by their doc_type field
\* (and the other three mappings by product_name, product_type and
\* company_type, a missing field counted as "unknown").
C5_ByTypeCountsDocType ==
    op = "get_document_stats" =>
        /\ ret.total_docs = Len(arg)
        /\ ret.by_type = Tally(arg, "doc_type")
        /\ ret.by_product = Tally(arg, "product_name")
        /\ ret.by_product_type = Tally(arg, "product_type")
        /\ ret.by_company = Tally(arg, "company_type")

\* C5 as amended: total_docs is the length of the list; by_type tallies
\* the documents by their doc_type_ja field, a document without it counted
\* as "unknown" whatever its doc_type (for a list of records that all
\* carry doc_type_ja = doc_type, as the loaders' records do, that is the
\* tally by doc_type); by_product, by_product_type and by_company tally
\* product_name, product_type and company_type, a missing field counted
\* as "unknown"; the counts of each mapping sum to total_docs and the
\* result is the same for the reversed list.
C5_StatsTally ==
    op = "get_document_stats" =>
        /\ ret.total_docs = Len(arg)
        /\ ret.by_type = Tally(arg, "doc_type_ja")
        /\ (\A i \in 1..Len(arg) : Get(arg[i], "doc_type_ja", Unknown) = arg[i].doc_type)
              => ret.by_type = Tally(arg, "doc_type")
        /\ ret.by_product = Tally(arg, "product_name")
        /\ ret.by_product_type = Tally(arg, "product_type")
        /\ ret.by_company = Tally(arg, "company_type")
        /\ \A m \in {"by_type", "by_product", "by_product_type", "by_company"} :
              Total(ret[m]) = ret.total_docs
        /\ get_document_stats(Reverse(arg)) = ret

\* 5 documents of 2 product types, one of them without doc_type_ja and so
\* counted as "unknown", another counted twice under its type
C5_Witness ==
    /\ op = "get_document_stats"
    /\ Len(arg) = 5
    /\ \E i \in 1..5 : "doc_type_ja" \notin DOMAIN arg[i]
    /\ Unknown \in DOMAIN ret.by_type
    /\ DOMAIN ret.by_product_type = {"plasma", "ibd"}
    /\ \E k \in DOMAIN ret.by_type : ret.by_type[k] >= 2

---------------------------------------------------------------------------
(* load_drug_prices                                                        *)

InjectionKey == <<"<chu>", "<sha>", "<zai>">>        \* lines 371-372
OralKey == <<"<nai>", "<fuku>", "<yaku>">>           \* lines 373-374
OralShort == <<"<nai>", "<fuku>">>                   \* line 373
XlsxExt == <<".", "x", "l", "s", "x">>               \* line 362

\* glob("*.ext") on a case-sensitive file system
GlobMatch(name, ext) == EndsWith(name, ext)

\* lines 371-376: the key a file's dataset is stored under
PriceCategory(name) ==
    IF Contains(name, InjectionKey) THEN InjectionKey
    ELSE IF Contains(name, OralKey) \/ Contains(name, OralShort) THEN OralKey
    ELSE Stem(name)

\* a loop body that keeps the dataset a key already has
PricesStep_KeepFirst(prices, file) ==
    IF ~file.ok \/ PriceCategory(file.name) \in DOMAIN prices THEN prices
    ELSE Put(prices, PriceCategory(file.name), file.df)

\* lines 367-382, one file: read_excel raising leaves prices as it was
PricesStep(prices, file) ==
    IF ~file.ok THEN prices
    ELSE Put(prices, PriceCategory(file.name), file.df)

RECURSIVE PricesFrom(_, _)
PricesFrom(prices, files) ==
    IF files = <<>> THEN prices
    ELSE PricesFrom(PricesStep(prices, Head(files)), Tail(files))

\* the entries of a directory listing that glob("*.ext") returns, in order
RECURSIVE GlobFiles(_, _)
GlobFiles(entries, ext) ==
    IF entries = <<>> THEN <<>>
    ELSE (IF GlobMatch(Head(entries).name, ext) THEN <<Head(entries)>> ELSE <<>>)
           \o GlobFiles(Tail(entries), ext)

\* lines 355-384.  dir is None when the price directory is missing, else
\* the listing of the directory.
load_drug_prices(dir) ==
    IF dir = None THEN EmptyDict
    ELSE PricesFrom(EmptyDict, GlobFiles(Val(dir), XlsxExt))

PriceNames ==
    { InjectionKey \o XlsxExt,
      <<"a", "_">> \o OralKey \o XlsxExt,
      OralShort \o <<"_", "b">> \o XlsxExt,
      InjectionKey \o <<"_">> \o OralShort \o XlsxExt,
      <<"c">> \o XlsxExt,
      <<"c", ".", "d">> \o XlsxExt,
      <<"m", ".", "t", "x", "t">> }

\* a file of the listing: read_excel succeeds on it or raises; the dataset
\* it yields is named after the file
PriceFiles == {[name |-> n, ok |-> b, df |-> <<"data of", n>>] : n \in PriceNames, b \in BOOLEAN}

MaxPriceFiles == 3

DistinctNames(files) ==
    \A i, j \in 1..Len(files) : files[i].name = files[j].name => i = j

NamesOf(files) == [i \in 1..Len(files) |-> files[i].name]

LoadDrugPrices ==
    /\ Idle
    /\ \/ /\ op' = "load_drug_prices"
          /\ arg' = None
          /\ ret' = load_drug_prices(None)
          /\ reads' = <<>>
       \/ \E files \in SeqsUpTo(PriceFiles, MaxPriceFiles) :
          /\ DistinctNames(files)
          /\ op' = "load_drug_prices"
          /\ arg' = Some(files)
          /\ ret' = load_drug_prices(Some(files))
          /\ reads' = NamesOf(GlobFiles(files, XlsxExt))

NextPrices == LoadDrugPrices \/ Return

SpecPrices == Init /\ [][NextPrices]_vars

\* the positions of the spreadsheet files that loaded, and the category of
\* a file, read off the three rules of section 4.7
LoadedAt(files) == {i \in 1..Len(files) : GlobMatch(files[i].name, XlsxExt) /\ files[i].ok}

\* C7: the mapping load_drug_prices returns has exactly the category keys
\* of the files that loaded, each key holding the dataset of the last
\* loaded file of that category; a file that fails changes nothing and
\* the files after it are still read.
C7_LastLoadedWins ==
    (op = "load_drug_prices" /\ arg # None) =>
        LET files == Val(arg)
            loaded == LoadedAt(files)
        IN  /\ DOMAIN ret = {PriceCategory(files[i].name) : i \in loaded}
            /\ \A k \in DOMAIN ret :
                 LET last == CHOOSE i \in loaded :
                                /\ PriceCategory(files[i].name) = k
                                /\ \A j \in loaded :
                                     PriceCategory(files[j].name) = k => j <= i
                 IN  ret[k] = files[last].df
            /\ reads = NamesOf(GlobFiles(files, XlsxExt))

\* two files of the injection category loaded around one that failed, and
\* the second one's dataset is the one kept
C7_Witness ==
    /\ op = "load_drug_prices"
    /\ arg # None
    /\ Len(Val(arg)) = 3
    /\ Val(arg)[1].ok /\ ~Val(arg)[2].ok /\ Val(arg)[3].ok
    /\ PriceCategory(Val(arg)[1].name) = InjectionKey
    /\ PriceCategory(Val(arg)[3].name) = InjectionKey
    /\ Val(arg)[1].name # Val(arg)[3].name
    /\ Len(reads) = 3
    /\ ret[InjectionKey] = Val(arg)[3].df

---------------------------------------------------------------------------
(* load_xml, load_product_documents, load_all_documents                    *)

\* the heading load_xml gives its one section (line 177)
XmlHeading == <<"<den>", "<shi>", "<ten>", "<bun>">>

\* lines 167-194.  file.ok says that ET.parse succeeds; file.text is the
\* text content of the parsed tree.
load_xml(file) ==
    IF ~file.ok THEN None
    ELSE Some([ full_text |-> file.text,
                sections |-> << [ text |-> clean_text(file.text),
                                  page |-> None,
                                  heading |-> Some(XmlHeading),
                                  file_name |-> file.name ] >>,
                file_name |-> file.name,
                file_path |-> FilePath(file),
                pages |-> None,
                doc_type |-> DT_EPI,
                doc_type_ja |-> DT_EPI ])

\* lines 233-242: the metadata added to a loaded document
WithMetadata(doc, file, product_type, company_type) ==
    [product_type |-> product_type, company_type |-> company_type,
     product_name |-> file.parent] @@ doc

\* lines 226-231: the reader a file is dispatched to, by its suffix
Dispatch(file) ==
    IF Suffix(file.name) = PdfExt THEN "load_pdf"
    ELSE IF Suffix(file.name) = XmlExt THEN "load_xml"
    ELSE "skip"

LoadFile(file) ==
    IF Dispatch(file) = "load_pdf" THEN load_pdf(file) ELSE load_xml(file)

\* a loop that gives up at the first file that fails to parse
RECURSIVE DocsFrom_StopOnFailure(_, _, _)
DocsFrom_StopOnFailure(files, product_type, company_type) ==
    IF files = <<>> THEN <<>>
    ELSE IF Dispatch(Head(files)) = "skip"
         THEN DocsFrom_StopOnFailure(Tail(files), product_type, company_type)
         ELSE IF LoadFile(Head(files)) = None THEN <<>>
              ELSE <<WithMetadata(Val(LoadFile(Head(files))), Head(files),
                                  product_type, company_type)>>
                     \o DocsFrom_StopOnFailure(Tail(files), product_type, company_type)

\* lines 225-242: the documents of the files, in order
RECURSIVE DocsFrom(_, _, _)
DocsFrom(files, product_type, company_type) ==
    IF files = <<>> THEN <<>>
    ELSE (IF Dispatch(Head(files)) = "skip" \/ LoadFile(Head(files)) = None
          THEN <<>>
          ELSE <<WithMetadata(Val(LoadFile(Head(files))), Head(files),
                              product_type, company_type)>>)
           \o DocsFrom(Tail(files), product_type, company_type)

\* the files a reader was called on, in order
RECURSIVE ReadsFrom(_)
ReadsFrom(files) ==
    IF files = <<>> THEN <<>>
    ELSE (IF Dispatch(Head(files)) = "skip" THEN <<>> ELSE <<FilePath(Head(files))>>)
           \o ReadsFrom(Tail(files))

\* lines 217-220: rglob("*.pdf") then rglob("*.xml") over the files below
\* the folder, each in discovery order
AllFiles(entries) == GlobFiles(entries, PdfExt) \o GlobFiles(entries, XmlExt)

\* lines 207-244.  dir is None when data_dir/product_type/company_type
\* does not exist, else the files below it in discovery order.
load_product_documents(dir, product_type, company_type) ==
    IF dir = None THEN <<>>
    ELSE DocsFrom(AllFiles(Val(dir)), product_type, company_type)

ReadsOfProduct(dir) ==
    IF dir = None THEN <<>> ELSE ReadsFrom(AllFiles(Val(dir)))

ProductTypes == <<"plasma", "ibd", "antidepressant">>    \* line 256
CompanyTypes == <<"own", "other_co">>                    \* line 257

\* lines 269-273: the company types from position c on
RECURSIVE CompaniesFrom(_, _, _)
CompaniesFrom(fs, product_type, c) ==
    IF c > Len(CompanyTypes) THEN <<>>
    ELSE load_product_documents(fs.dirs[<<product_type, CompanyTypes[c]>>],
                                product_type, CompanyTypes[c])
           \o CompaniesFrom(fs, product_type, c + 1)

\* a loop that stops at the first product type without a directory
RECURSIVE ProductsFrom_StopAtMissing(_, _)
ProductsFrom_StopAtMissing(fs, p) ==
    IF p > Len(ProductTypes) THEN <<>>
    ELSE IF ~fs.exists[ProductTypes[p]] THEN <<>>
    ELSE CompaniesFrom(fs, ProductTypes[p], 1) \o ProductsFrom_StopAtMissing(fs, p + 1)

\* lines 261-273: the product types from position p on; one without a
\* directory is skipped
RECURSIVE ProductsFrom(_, _)
ProductsFrom(fs, p) ==
    IF p > Len(ProductTypes) THEN <<>>
    ELSE IF ~fs.exists[ProductTypes[p]] THEN ProductsFrom(fs, p + 1)
    ELSE CompaniesFrom(fs, ProductTypes[p], 1) \o ProductsFrom(fs, p + 1)

\* lines 253-275.  fs.exists[pt] says that data_dir/pt exists, fs.dirs
\* gives each (pt, ct) folder as load_product_documents finds it.
load_all_documents(fs) == ProductsFrom(fs, 1)

RECURSIVE ReadsOfCompanies(_, _, _)
ReadsOfCompanies(fs, product_type, c) ==
    IF c > Len(CompanyTypes) THEN <<>>
    ELSE ReadsOfProduct(fs.dirs[<<product_type, CompanyTypes[c]>>])
           \o ReadsOfCompanies(fs, product_type, c + 1)

RECURSIVE ReadsOfAll(_, _)
ReadsOfAll(fs, p) ==
    IF p > Len(ProductTypes) THEN <<>>
    ELSE (IF fs.exists[ProductTypes[p]] THEN ReadsOfCompanies(fs, ProductTypes[p], 1)
          ELSE <<>>) \o ReadsOfAll(fs, p + 1)

Range(q) == {q[i] : i \in 1..Len(q)}

Pairs == Range(ProductTypes) \X Range(CompanyTypes)

WalkPages == << <<"a">> >>
WalkText == <<SP, "t", FW, FW, "u", NL>>

\* the files below a folder, as <<name, parent directory>>: an interview
\* form in a product folder and one directly in the company folder, an XML
\* with the RMP marker, a hidden file named ".xml", a text file, and a
\* patient guide directly in the company folder
WalkPaths(company_type) ==
    { << <<"a">> \o IfMarkerLong, "ProdA" >>,
      << <<"a">> \o IfMarkerLong, company_type >>,
      << RmpMarker \o XmlExt, "ProdA" >>,
      << XmlExt, "ProdA" >>,
      << <<"d", ".", "t", "x", "t">>, "ProdA" >>,
      << GuideMarker \o PdfExt, company_type >> }

\* each of them parses or fails to
WalkFiles(company_type) ==
    { [name |-> path[1], parent |-> path[2], ok |-> b, pages |-> WalkPages, text |-> WalkText] :
        path \in WalkPaths(company_type), b \in BOOLEAN }

MaxFiles == 3

DistinctPaths(files) ==
    \A i, j \in 1..Len(files) : FilePath(files[i]) = FilePath(files[j]) => i = j

LoadProductDocuments ==
    /\ Idle
    /\ \E pair \in {<<"plasma", "own">>, <<"ibd", "other_co">>} :
        \/ /\ op' = "load_product_documents"
           /\ arg' = [dir |-> None, product_type |-> pair[1], company_type |-> pair[2]]
           /\ ret' = load_product_documents(None, pair[1], pair[2])
           /\ reads' = ReadsOfProduct(None)
        \/ \E files \in SeqsUpTo(WalkFiles(pair[2]), MaxFiles) :
           /\ DistinctPaths(files)
           /\ op' = "load_product_documents"
           /\ arg' = [dir |-> Some(files), product_type |-> pair[1], company_type |-> pair[2]]
           /\ ret' = load_product_documents(Some(files), pair[1], pair[2])
           /\ reads' = ReadsOfProduct(Some(files))

\* what a (product_type, company_type) folder of the whole tree can be:
\* missing, empty, one good PDF, or a bad XML before a good one
TreeDirs ==
    LET f(n, d, b) == [name |-> n, parent |-> d, ok |-> b, pages |-> WalkPages, text |-> WalkText]
    IN  { None,
          Some(<<>>),
          Some(<<f(<<"a">> \o IfMarkerLong, "ProdA", TRUE)>>),
          Some(<<f(RmpMarker \o XmlExt, "ProdA", FALSE), f(RmpMarker \o XmlExt, "ProdB", TRUE)>>) }

\* the trees: a company folder exists only inside a product folder
Trees ==
    { fs \in [exists : [Range(ProductTypes) -> BOOLEAN], dirs : [Pairs -> TreeDirs]] :
        \A pair \in Pairs : fs.dirs[pair] # None => fs.exists[pair[1]] }

LoadAllDocuments ==
    /\ Idle
    /\ \E fs \in Trees :
        /\ op' = "load_all_documents"
        /\ arg' = fs
        /\ ret' = load_all_documents(fs)
        /\ reads' = ReadsOfAll(fs, 1)

\* load_xml called on its own, on a file of any name
XmlCallNames ==
    { RmpMarker \o XmlExt,
      <<"e", "F.", "Fx", "Fm", "Fl">>,
      <<"e", ".", "X", "M", "L">>,
      <<"a">> \o IfMarkerLong,
      <<"n", "o", "t", "e">> }

LoadXml ==
    /\ Idle
    /\ \E name \in XmlCallNames, ok \in BOOLEAN :
        LET file == [name |-> name, parent |-> "ProdA", ok |-> ok,
                     pages |-> WalkPages, text |-> WalkText]
        IN  /\ op' = "load_xml"
            /\ arg' = file
            /\ ret' = load_xml(file)
            /\ reads' = <<FilePath(file)>>

NextWalk == LoadPdf \/ LoadXml \/ LoadProductDocuments \/ LoadAllDocuments \/ Return

SpecWalk == Init /\ [][NextWalk]_vars

\* the six (product_type, company_type) pairs in the order of the loops
PairOrder ==
    << <<"plasma", "own">>, <<"plasma", "other_co">>,
       <<"ibd", "own">>, <<"ibd", "other_co">>,
       <<"antidepressant", "own">>, <<"antidepressant", "other_co">> >>

RECURSIVE DocsOfPairs(_, _)
DocsOfPairs(fs, pairs) ==
    IF pairs = <<>> THEN <<>>
    ELSE LET pair == Head(pairs)
         IN  (IF fs.exists[pair[1]] /\ fs.dirs[pair] # None
              THEN load_product_documents(fs.dirs[pair], pair[1], pair[2])
              ELSE <<>>) \o DocsOfPairs(fs, Tail(pairs))

\* C8: load_product_documents on a pair whose directory does not exist
\* returns the empty list and reads no file; load_all_documents skips the
\* product types whose directory is missing and returns, in product-type
\* then company-type order, the concatenation of the lists of the pairs
\* that exist.
C8_MissingDirectories ==
    /\ (op = "load_product_documents" /\ arg.dir = None) => (ret = <<>> /\ reads = <<>>)
    /\ op = "load_all_documents" =>
         /\ ret = DocsOfPairs(arg, PairOrder)
         /\ \A i \in 1..Len(ret) : arg.exists[ret[i].product_type]

\* the first product type has no directory and a later one gave documents
C8_Witness ==
    /\ op = "load_all_documents"
    /\ ~arg.exists["plasma"]
    /\ arg.dirs[<<"ibd", "own">>] = None
    /\ Len(ret) >= 3
    /\ ret[1].product_type = "ibd"
    /\ ret[Len(ret)].product_type = "antidepressant"

\* the files of a folder that a reader was called on and parsed, in the
\* order they were processed (all PDFs, then all XMLs)
RECURSIVE ParsedFiles(_)
ParsedFiles(files) ==
    IF files = <<>> THEN <<>>
    ELSE (IF Dispatch(Head(files)) # "skip" /\ Head(files).ok THEN <<Head(files)>> ELSE <<>>)
           \o ParsedFiles(Tail(files))

\* C9: for an existing directory load_product_documents returns exactly
\* one record per file that parsed, none for a file that failed, in the
\* order the files were processed; a failure does not keep a later file
\* from being read; every record carries the call's product_type and
\* company_type and the name of the file's parent directory as
\* product_name.
C9_OneRecordPerParsedFile ==
    (op = "load_product_documents" /\ arg.dir # None) =>
        LET parsed == ParsedFiles(AllFiles(Val(arg.dir)))
        IN  /\ Len(ret) = Len(parsed)
            /\ \A i \in 1..Len(ret) :
                /\ ret[i].file_path = FilePath(parsed[i])
                /\ ret[i].file_name = parsed[i].name
                /\ ret[i].product_type = arg.product_type
                /\ ret[i].company_type = arg.company_type
                /\ ret[i].product_name = parsed[i].parent
            /\ reads = ReadsFrom(AllFiles(Val(arg.dir)))

\* a PDF that failed, then an XML that parsed and is the one record
C9_Witness ==
    /\ op = "load_product_documents"
    /\ arg.dir # None
    /\ Len(reads) = 2
    /\ Len(ret) = 1
    /\ \E i \in 1..Len(Val(arg.dir)) :
         /\ FilePath(Val(arg.dir)[i]) = reads[1]
         /\ ~Val(arg.dir)[i].ok
    /\ ret[1].file_path = reads[2]
    /\ ret[1].product_name = arg.company_type

\* the documents a call returned
DocsReturned ==
    IF op \in {"load_pdf", "load_xml"} THEN (IF ret = None THEN {} ELSE {Val(ret)})
    ELSE IF op \in {"load_product_documents", "load_all_documents"} THEN Range(ret)
    ELSE {}

\* C10 as stated: every record returned by load_pdf, load_xml,
\* load_product_documents or load_all_documents has a doc_type among the
\* five categories that equals _detect_document_type of its file_name.
C10_DocTypeIsClassifier ==
    \A doc \in DocsReturned :
        /\ doc.doc_type \in DocTypes
        /\ doc.doc_type = detect_document_type(doc.file_name)

\* C10 as amended: every such record has a doc_type among the five
\* categories; it equals _detect_document_type of the file_name for the
\* records of load_pdf, load_product_documents and load_all_documents,
\* and for those of load_xml when the file's name ends in .xml (after
\* width folding), as the name of every file the directory walker
\* dispatches to load_xml does.  load_xml called on any other name still
\* returns the electronic package insert type.
C10_DocTypeClosedAndClassified ==
    /\ \A doc \in DocsReturned :
        /\ doc.doc_type \in DocTypes
        /\ doc.doc_type_ja = doc.doc_type
        /\ (op # "load_xml" \/ IsXmlName(doc.file_name))
              => doc.doc_type = detect_document_type(doc.file_name)
        /\ op = "load_xml" => doc.doc_type = DT_EPI

\* the walker returned an XML record whose name carries the RMP marker
\* next to an interview form
C10_Witness ==
    /\ op = "load_product_documents"
    /\ \E doc \in DocsReturned :
         /\ IsRmpName(doc.file_name)
         /\ doc.doc_type = DT_EPI
    /\ \E doc \in DocsReturned : doc.doc_type = DT_IF

---------------------------------------------------------------------------
(* Every call of the loader                                                *)

Next ==
    \/ CleanText
    \/ DetectDocumentType
    \/ ExtractFirstHeading
    \/ ExtractSectionsFromText
    \/ LoadPdf
    \/ LoadXml
    \/ LoadProductDocuments
    \/ LoadAllDocuments
    \/ GetDocumentStats
    \/ LoadDrugPrices
    \/ Return

Spec == Init /\ [][Next]_vars

====
